---- MODULE Spec2Model ----
(***************************************************************************)
(* Model of pyuap/data.py: the WaterUFONet archive crawler and the         *)
(* FAADroneSightings spreadsheet ingester.                                 *)
(*                                                                         *)
(* The two classes are sequential glue code, so every pipeline is its own  *)
(* small state machine with its own specification:                         *)
(*   SpecCtor     the two constructors                                     *)
(*   SpecTables   WaterUFONet.get_case_tables / process_snapshot           *)
(*   SpecReports  WaterUFONet.get_case_reports / get_case_report           *)
(*   SpecDownload FAADroneSightings.get_file_links / download_files        *)
(*   SpecRead     FAADroneSightings.read_files / file_adapter              *)
(*   SpecExtract  FAADroneSightings.sample_extract                         *)
(* A specification leaves the variables of the other pipelines idle.       *)
(*                                                                         *)
(* Text is modelled as a sequence of tokens where the code looks at a      *)
(* prefix of it (startswith), and as a TLA+ string where the code only     *)
(* concatenates or compares it.                                            *)
(***************************************************************************)
EXTENDS Integers, Sequences, FiniteSets, TLC

VARIABLES
    \* constructors
    scrapers,       \* the scraper objects that exist, in construction order
    ctor_calls,     \* history: every constructor call with its outcome
    \* WaterUFONet.get_case_tables
    n_snapshots,    \* argument of get_case_tables
    snap_idx,       \* number of snapshots the for loop has consumed
    frames,         \* the local list `frames`
    tables_pc,      \* "idle" | "loop" | "done"
    snap_log,       \* history: the page served for each processed snapshot and the outcome
    \* WaterUFONet.get_case_reports, FAADroneSightings.download_files
    run,            \* "idle" | "reports" | "download"
    crawl_pc,       \* position in the running method
    buffer_time,    \* self.buffer_time
    max_failures,   \* self.max_failures
    table_links,    \* table["link"] of the one case table (reports run)
    idx,            \* loop index `idx` of the running enumerate loop
    failures,       \* local counter `failures`
    results,        \* local list `results`
    fetch_log,      \* history: per detail link, "ok" or "fail"
    web,            \* the FAA site: anchors of the index page and of each sub-index page
    file_links,     \* the part of the local list `file_links` that the for loop of
                    \* get_file_links has not reached yet
    link_set,       \* set(file_links): every link the list holds, reached or not
    remove,         \* local set `remove`
    returned_links, \* the list get_file_links returned
    downloaded,     \* links written to disk by download_files, in order
    http_log,       \* history: the requests and sleeps, in order, from the request
                    \* that came before the latest request to the same host
    \* FAADroneSightings.read_files
    files,          \* the *.xlsx files of the directory, in glob order
    file_idx,       \* number of files the for loop has consumed
    dfs,            \* local list `dfs`
    read_pc,        \* "idle" | "loop" | "done"
    read_result,    \* what read_files returned
    \* FAADroneSightings.sample_extract
    summaries,      \* the sampled summaries
    response,       \* choices[0], the text the extraction service returned
    extract_pc,     \* "idle" | "call" | "done"
    extract_out     \* outcome of sample_extract

ctorVars    == <<scrapers, ctor_calls>>
tablesVars  == <<n_snapshots, snap_idx, frames, tables_pc, snap_log>>
crawlVars   == <<run, crawl_pc, buffer_time, max_failures, table_links, idx, failures,
                 results, fetch_log, web, file_links, link_set, remove, returned_links,
                 downloaded, http_log>>
readVars    == <<files, file_idx, dfs, read_pc, read_result>>
extractVars == <<summaries, response, extract_pc, extract_out>>
vars        == <<ctorVars, tablesVars, crawlVars, readVars, extractVars>>

\* Python's None
None == "None"

\* ---- bounds ----
MaxCalls     == 2   \* constructor calls in one behaviour
MaxOver      == 2   \* buffer times up to MinBufferTime + MaxOver are tried
MaxFailArg   == 2   \* max_failures arguments 0..MaxFailArg are tried
MaxSnapshots == 2   \* length of self.snapshots (9 in the source)
MaxTr        == 3   \* <tr> elements in the case table, header included
MaxAnchors   == 2   \* <a> elements on a page
MaxLinks     == 3   \* rows of the case table whose reports are fetched
MaxIndex     == 2   \* matching or other anchors on the FAA index page
MaxSub       == 1   \* anchors on an FAA sub-index page
MaxFiles     == 2   \* *.xlsx files in the directory
SheetRows    == 1   \* rows of one spreadsheet
MaxSummaries == 2   \* n, the number of sampled summaries
MaxValues    == 2   \* values of the decoded JSON object
MaxItems     == 2   \* elements of a JSON list

\* ---- helpers ----
Range(s) == {s[i] : i \in 1..Len(s)}

SeqsUpTo(S, n) == UNION {[1..k -> S] : k \in 0..n}

Min(a, b) == IF a <= b THEN a ELSE b

\* str.startswith on token sequences
StartsWith(text, prefix) ==
    /\ Len(text) >= Len(prefix)
    /\ SubSeq(text, 1, Len(prefix)) = prefix

\* [f(x) for x in s if p(x)]: the subsequence of s of the elements satisfying Keep
RECURSIVE SelectIdx(_, _)
SelectIdx(n, keep) ==
    IF n = 0 THEN <<>>
    ELSE IF n \in keep THEN Append(SelectIdx(n - 1, keep), n)
         ELSE SelectIdx(n - 1, keep)

\* ==========================================================================
\* Constructors
\* ==========================================================================
MinBufferTime == 10

BufferTimes == (MinBufferTime - 2)..(MinBufferTime + MaxOver)

\* the guard `if buffer_time < 10` of both constructors
BufferTooSmallOffByOne(bt) == bt < MinBufferTime - 1
BufferTooSmall(bt) == bt < MinBufferTime

CtorIdle == scrapers = <<>> /\ ctor_calls = <<>>

WaterUFONet_init(mf, bt) ==
    /\ Len(ctor_calls) < MaxCalls
    /\ IF BufferTooSmall(bt)
       THEN /\ ctor_calls' = Append(ctor_calls,
                   [cls |-> "WaterUFONet", buffer_time |-> bt, outcome |-> "ValueError"])
            /\ scrapers' = scrapers
       ELSE /\ ctor_calls' = Append(ctor_calls,
                   [cls |-> "WaterUFONet", buffer_time |-> bt, outcome |-> "ok"])
            /\ scrapers' = Append(scrapers,
                   [cls |-> "WaterUFONet", max_failures |-> mf, buffer_time |-> bt])
    /\ UNCHANGED <<tablesVars, crawlVars, readVars, extractVars>>

FAADroneSightings_init(bt) ==
    /\ Len(ctor_calls) < MaxCalls
    /\ IF BufferTooSmall(bt)
       THEN /\ ctor_calls' = Append(ctor_calls,
                   [cls |-> "FAADroneSightings", buffer_time |-> bt, outcome |-> "ValueError"])
            /\ scrapers' = scrapers
       ELSE /\ ctor_calls' = Append(ctor_calls,
                   [cls |-> "FAADroneSightings", buffer_time |-> bt, outcome |-> "ok"])
            /\ scrapers' = Append(scrapers,
                   [cls |-> "FAADroneSightings", df |-> None, buffer_time |-> bt])
    /\ UNCHANGED <<tablesVars, crawlVars, readVars, extractVars>>

NewWaterUFONet == \E mf \in 0..MaxFailArg, bt \in BufferTimes : WaterUFONet_init(mf, bt)

NewFAADroneSightings == \E bt \in BufferTimes : FAADroneSightings_init(bt)

\* ==========================================================================
\* WaterUFONet.process_snapshot and get_case_tables
\* ==========================================================================
ArchiveBase == "https://web.archive.org/"

ViewTheReport == <<"View", "the", "Report">>

\* a.get("alt") of an anchor without alt attribute
NoAlt == <<>>

\* the alt attribute of an anchor: absent, a report link's text, another text
Alts == {NoAlt, ViewTheReport \o <<"of", "the", "case">>, <<"Home">>}

\* the href attribute of an anchor: absent or a path
Hrefs == {None, "web/1/case1.html", "web/1/case2.html"}

Anchors == [alt : Alts, href : Hrefs]

\* What requests.get(snapshot) and raise_for_status make of one snapshot:
\* an error, or a page with `tables` <table> elements, the fifth of which
\* holds `trs` <tr> elements, and with the anchors `anchors` in document order.
ErrorPage == [status |-> "error", tables |-> 0, trs |-> 0, anchors |-> <<>>]

Pages == {ErrorPage} \cup
         [status : {"ok"}, tables : {4, 5}, trs : 0..MaxTr,
          anchors : SeqsUpTo(Anchors, MaxAnchors)]

\* rows[1:] of the case table, each row standing for its list of cell texts
TableData(page) == [i \in 1..(IF page.trs = 0 THEN 0 ELSE page.trs - 1) |-> <<"row", i>>]

\* a.get("alt") is not None and a["alt"].startswith("View the Report")
IsReportAnchor(a) == a.alt /= NoAlt /\ StartsWith(a.alt, ViewTheReport)

ReportAnchors(page) ==
    LET idxs == SelectIdx(Len(page.anchors),
                          {i \in 1..Len(page.anchors) : IsReportAnchor(page.anchors[i])})
    IN  [i \in 1..Len(idxs) |-> page.anchors[idxs[i]]]

\* result["link"] = [...] on pd.DataFrame(table_data): pandas takes the index
\* from the assigned list when the frame has no rows, and raises ValueError
\* when the frame has rows and the lengths differ.
AssignLinks(table_data, links) ==
    IF Len(table_data) = 0
    THEN [kind |-> "frame", rows |-> [i \in 1..Len(links) |-> <<>>], link |-> links]
    ELSE IF Len(table_data) = Len(links)
         THEN [kind |-> "frame", rows |-> table_data, link |-> links]
         ELSE [kind |-> "none", rows |-> <<>>, link |-> <<>>]

NoFrame == [kind |-> "none", rows |-> <<>>, link |-> <<>>]

Raised == [kind |-> "raise", rows |-> <<>>, link |-> <<>>]

\* process_snapshot: "none" is `return None`, "raise" an exception that
\* leaves the method (a["href"] of an anchor without href is a KeyError
\* outside every try block of the method).
process_snapshot(page) ==
    IF page.status = "error" THEN NoFrame
    ELSE IF page.tables < 5 THEN NoFrame
    ELSE LET table_data == TableData(page)
             report     == ReportAnchors(page)
         IN  IF \E i \in 1..Len(report) : report[i].href = None THEN Raised
             ELSE LET links == [i \in 1..Len(report) |-> report[i].href]
                  IN  IF links = <<>> THEN NoFrame
                      ELSE AssignLinks(table_data,
                               [i \in 1..Len(links) |-> ArchiveBase \o links[i]])

TablesIdle ==
    /\ n_snapshots = 0 /\ snap_idx = 0 /\ frames = <<>>
    /\ tables_pc = "idle" /\ snap_log = <<>>

TablesInit ==
    /\ n_snapshots \in 0..(MaxSnapshots + 1)
    /\ snap_idx = 0 /\ frames = <<>>
    /\ tables_pc = "loop" /\ snap_log = <<>>

\* one iteration of `for snapshot in self.snapshots[:n_snapshots]`
TablesStep ==
    /\ tables_pc = "loop"
    /\ snap_idx < Min(n_snapshots, MaxSnapshots)
    /\ \E page \in Pages :
         LET df == process_snapshot(page)
         IN  /\ snap_log' = Append(snap_log, [page |-> page, df |-> df])
             /\ snap_idx' = snap_idx + 1
             /\ frames' = IF df.kind = "frame" THEN Append(frames, df) ELSE frames
             \* an exception leaves the for loop through the except clause
             /\ tables_pc' = IF df.kind = "raise" THEN "done" ELSE "loop"
    /\ UNCHANGED <<n_snapshots, ctorVars, crawlVars, readVars, extractVars>>

\* the loop is exhausted: `return frames`
TablesReturn ==
    /\ tables_pc = "loop"
    /\ snap_idx = Min(n_snapshots, MaxSnapshots)
    /\ tables_pc' = "done"
    /\ UNCHANGED <<n_snapshots, snap_idx, frames, snap_log,
                   ctorVars, crawlVars, readVars, extractVars>>

TablesNext == TablesStep \/ TablesReturn

\* ==========================================================================
\* WaterUFONet.get_case_reports
\* ==========================================================================
ArchiveHost == "web.archive.org"

FAAHost == "www.faa.gov"

Get(host) == [op |-> "GET", host |-> host, secs |-> 0]

Sleep(secs) == [op |-> "sleep", host |-> None, secs |-> secs]

\* the history after the event ev: a request drops what came before the
\* previous request to its host
Log(log, ev) ==
    LET new  == Append(log, ev)
        prev == {i \in 1..Len(log) : log[i].op = "GET" /\ log[i].host = ev.host}
    IN  IF ev.op = "GET" /\ prev /= {}
        THEN SubSeq(new, CHOOSE i \in prev : \A j \in prev : j <= i, Len(new))
        ELSE new

\* the links of the case table, and the texts a report page can hold
DetailLinks == {ArchiveBase \o "web/1/case1.html", ArchiveBase \o "web/1/case2.html"}

ReportTexts == {"report text a", "report text b"}

ValidBufferTimes == {bt \in BufferTimes : ~BufferTooSmall(bt)}

CrawlIdle ==
    /\ run = "idle" /\ crawl_pc = "idle" /\ buffer_time = MinBufferTime
    /\ max_failures = 0 /\ table_links = <<>> /\ idx = 0 /\ failures = 0
    /\ results = <<>> /\ fetch_log = <<>> /\ web = None /\ file_links = <<>> /\ link_set = {}
    /\ remove = {} /\ returned_links = <<>> /\ downloaded = <<>> /\ http_log = <<>>

ReportsInit ==
    /\ run = "reports" /\ crawl_pc = "tables"
    /\ buffer_time \in ValidBufferTimes
    /\ max_failures \in 0..MaxFailArg
    /\ table_links = <<>> /\ idx = 0 /\ failures = 0
    /\ results = <<>> /\ fetch_log = <<>> /\ web = None /\ file_links = <<>> /\ link_set = {}
    /\ remove = {} /\ returned_links = <<>> /\ downloaded = <<>> /\ http_log = <<>>

\* case_tables = self.get_case_tables(n_snapshots=1): one snapshot request,
\* giving no table (no link) or one table with at least one link
GetCaseTables ==
    /\ run = "reports" /\ crawl_pc = "tables"
    /\ \E links \in SeqsUpTo(DetailLinks, MaxLinks) : table_links' = links
    /\ http_log' = Log(http_log, Get(ArchiveHost))
    /\ crawl_pc' = "reports"
    /\ UNCHANGED <<run, buffer_time, max_failures, idx, failures, results, fetch_log,
                   web, file_links, link_set, remove, returned_links, downloaded>>
    /\ UNCHANGED <<ctorVars, tablesVars, readVars, extractVars>>

\* `if failures >= self.max_failures`
MaxFailuresReachedStrict(f, mf) == f > mf
MaxFailuresReached(f, mf) == f >= mf

\* one iteration of `for idx, link in enumerate(table_links)`: get_case_report
\* sleeps, requests the page and either raises or returns the report text
ReportStep ==
    /\ run = "reports" /\ crawl_pc = "reports"
    /\ idx < Len(table_links)
    /\ http_log' = Log(Log(http_log, Sleep(buffer_time)), Get(ArchiveHost))
    /\ idx' = idx + 1
    /\ \/ \* except Exception
          /\ fetch_log' = Append(fetch_log, "fail")
          /\ failures' = failures + 1
          /\ crawl_pc' = IF MaxFailuresReached(failures + 1, max_failures)
                         THEN "done" ELSE "reports"
          /\ results' = results
       \/ \E report \in ReportTexts :
            /\ fetch_log' = Append(fetch_log, report)
            /\ results' = Append(results, [link |-> table_links[idx + 1], report |-> report])
            /\ UNCHANGED <<failures, crawl_pc>>
    /\ UNCHANGED <<run, buffer_time, max_failures, table_links, web, file_links, link_set,
                   remove, returned_links, downloaded>>
    /\ UNCHANGED <<ctorVars, tablesVars, readVars, extractVars>>

\* the loops are exhausted: `return results`
ReportsReturn ==
    /\ run = "reports" /\ crawl_pc = "reports"
    /\ idx = Len(table_links)
    /\ crawl_pc' = "done"
    /\ UNCHANGED <<run, buffer_time, max_failures, table_links, idx, failures, results,
                   fetch_log, web, file_links, link_set, remove, returned_links, downloaded,
                   http_log>>
    /\ UNCHANGED <<ctorVars, tablesVars, readVars, extractVars>>

ReportsNext == GetCaseTables \/ ReportStep \/ ReportsReturn

\* ==========================================================================
\* FAADroneSightings.get_file_links and download_files
\* ==========================================================================
FAABase == <<"https://www.faa.gov">>

IndexPattern == <<"Reported UAS Sightings">>

SubPattern == <<"Reported-UAS-Sightings">>

\* link.text of an anchor, as tokens
LinkTexts == {IndexPattern \o <<"FY22">>, SubPattern \o <<"Q1">>, <<"Contact">>}

\* link["href"]: the path segments between the slashes, each a token sequence
Fy22A == << <<"uas">>, <<"fy22-", "q1">> >>
Fy22B == << <<"uas">>, <<"fy22-", "q2">> >>
Sheet == << <<"media">>, <<"sightings", ".", "xlsx">> >>
Other == << <<"media">>, <<"notes", ".", "pdf">> >>

FAAHrefs == {Fy22A, Fy22B, Sheet, Other}

FAAAnchors == [text : LinkTexts, href : FAAHrefs]

\* self.base + link["href"]
Url(href) == <<FAABase>> \o href

\* link.split("/")[-1]
FName(link) == link[Len(link)]

\* fname.startswith("fy22-")
IsFy22(link) == StartsWith(FName(link), <<"fy22-">>)

\* ftype = link.split(".")[-1], replaced by "xlsx" unless it is "xlsx" or "xls"
FType(link) ==
    LET f == FName(link)
    IN  IF Len(f) >= 2 /\ f[Len(f) - 1] = "." /\ f[Len(f)] \in {"xlsx", "xls"}
        THEN f[Len(f)] ELSE "xlsx"

\* _extract_links(response, pattern)
ExtractLinks(anchors, pattern) ==
    LET idxs == SelectIdx(Len(anchors),
                          {i \in 1..Len(anchors) : StartsWith(anchors[i].text, pattern)})
    IN  [i \in 1..Len(idxs) |-> Url(anchors[idxs[i]].href)]

\* the pages of the site: the index page and the page behind each fy22- link
Fy22Urls == {Url(h) : h \in {g \in FAAHrefs : IsFy22(Url(g))}}

Webs == [index : SeqsUpTo(FAAAnchors, MaxIndex),
         sub : [Fy22Urls -> SeqsUpTo(FAAAnchors, MaxSub)]]

\* The longest file_links a site without a cycle of fy22- pages produces within
\* the bounds (two fy22- pages, so two levels of sub-index); only a run that
\* never ends holds more unreached links, and the model stops following it
\* there.
ListCap == MaxIndex * (1 + MaxSub + MaxSub * MaxSub) + 1

Orders(S) == {p \in [1..Cardinality(S) -> S] : \A i, j \in 1..Cardinality(S) :
                                                       p[i] = p[j] => i = j}

DownloadInit ==
    /\ run = "download" /\ crawl_pc = "index"
    /\ buffer_time \in ValidBufferTimes
    /\ web \in Webs
    /\ max_failures = 0 /\ table_links = <<>> /\ idx = 0 /\ failures = 0
    /\ results = <<>> /\ fetch_log = <<>> /\ file_links = <<>> /\ link_set = {}
    /\ remove = {} /\ returned_links = <<>> /\ downloaded = <<>> /\ http_log = <<>>

\* requests.get(self.url); raise_for_status(); file_links = _extract_links(response)
GetIndex ==
    /\ run = "download" /\ crawl_pc = "index"
    /\ http_log' = Log(http_log, Get(FAAHost))
    /\ \/ crawl_pc' = "raised" /\ UNCHANGED <<file_links, link_set>>
       \/ /\ file_links' = ExtractLinks(web.index, IndexPattern)
          /\ link_set' = Range(ExtractLinks(web.index, IndexPattern))
          /\ crawl_pc' = "links"
    /\ UNCHANGED <<run, buffer_time, max_failures, table_links, idx, failures, results,
                   fetch_log, web, remove, returned_links, downloaded>>
    /\ UNCHANGED <<ctorVars, tablesVars, readVars, extractVars>>

\* one iteration of `for link in file_links`, over the list as it grows: the
\* loop takes the next link it has not reached, and the links that line 229
\* appends are reached after those already in the list
LinksStep ==
    /\ run = "download" /\ crawl_pc = "links"
    /\ file_links /= <<>>
    /\ Len(file_links) <= ListCap
    /\ LET link == Head(file_links)
       IN  IF IsFy22(link)
           THEN /\ remove' = remove \cup {link}
                /\ http_log' = Log(http_log, Get(FAAHost))
                /\ \/ /\ crawl_pc' = "raised"
                      /\ file_links' = Tail(file_links)
                      /\ link_set' = link_set
                   \/ LET more == ExtractLinks(web.sub[link], SubPattern)
                      IN  /\ file_links' = Tail(file_links) \o more
                          /\ link_set' = link_set \cup Range(more)
                          /\ crawl_pc' = "links"
           ELSE /\ file_links' = Tail(file_links)
                /\ UNCHANGED <<remove, http_log, crawl_pc, link_set>>
    /\ UNCHANGED <<run, buffer_time, max_failures, table_links, idx, failures, results,
                   fetch_log, web, returned_links, downloaded>>
    /\ UNCHANGED <<ctorVars, tablesVars, readVars, extractVars>>

\* return list(set(file_links) - remove): a list in the set's iteration order
LinksReturn ==
    /\ run = "download" /\ crawl_pc = "links"
    /\ file_links = <<>>
    /\ returned_links' \in Orders(link_set \ remove)
    /\ crawl_pc' = "download"
    /\ UNCHANGED <<run, buffer_time, max_failures, table_links, idx, failures, results,
                   fetch_log, web, file_links, link_set, remove, downloaded, http_log>>
    /\ UNCHANGED <<ctorVars, tablesVars, readVars, extractVars>>

\* one iteration of `for idx, link in enumerate(file_links)` of download_files
DownloadStep ==
    /\ run = "download" /\ crawl_pc = "download"
    /\ idx < Len(returned_links)
    /\ \/ /\ http_log' = Log(http_log, Get(FAAHost))
          /\ crawl_pc' = "raised"
          /\ UNCHANGED <<idx, downloaded>>
       \/ /\ http_log' = Log(Log(http_log, Get(FAAHost)), Sleep(buffer_time))
          /\ downloaded' = Append(downloaded,
                 [name |-> <<"uas_sightings_report_", idx, FType(returned_links[idx + 1])>>,
                  link |-> returned_links[idx + 1]])
          /\ idx' = idx + 1
          /\ crawl_pc' = crawl_pc
    /\ UNCHANGED <<run, buffer_time, max_failures, table_links, failures, results,
                   fetch_log, web, file_links, link_set, remove, returned_links>>
    /\ UNCHANGED <<ctorVars, tablesVars, readVars, extractVars>>

\* the loop is exhausted: "Download complete."
DownloadDone ==
    /\ run = "download" /\ crawl_pc = "download"
    /\ idx = Len(returned_links)
    /\ crawl_pc' = "done"
    /\ UNCHANGED <<run, buffer_time, max_failures, table_links, idx, failures, results,
                   fetch_log, web, file_links, link_set, remove, returned_links, downloaded,
                   http_log>>
    /\ UNCHANGED <<ctorVars, tablesVars, readVars, extractVars>>

DownloadNext == GetIndex \/ LinksStep \/ LinksReturn \/ DownloadStep \/ DownloadDone

\* ==========================================================================
\* FAADroneSightings.file_adapter and read_files
\* ==========================================================================
\* a table: its column labels in order and its rows (each row stands for its cells)
NoTable == [kind |-> "None", columns |-> <<>>, rows |-> <<>>]

Table(columns, rows) == [kind |-> "table", columns |-> columns, rows |-> rows]

column_mapping ==
    [date    |-> {"Date", "Day of Sighting", "Date of Sighting", "Date of Sighitng",
                  "Day of Date of Sighting", "Event Date & Time", "Event Date",
                  "EventDATETIME", "Event DATETIME", "spEventDateTime"},
     state   |-> {"State", "STATE", "LocationSTATE", "spState", "Location STATE"},
     city    |-> {"City", "CITY", "LocationCITY", "spCity", "Location CITY"},
     summary |-> {"Summary", "Event Description", "EventREPORTNARRATIVE", "Description",
                  "Redacted"}]

\* flat_aliases applied to one header by df.rename: an alias becomes its
\* standard name, any other header is kept
flat_aliases(header) ==
    IF \E standard \in DOMAIN column_mapping : header \in column_mapping[standard]
    THEN CHOOSE standard \in DOMAIN column_mapping : header \in column_mapping[standard]
    ELSE header

Rename(columns) == [i \in 1..Len(columns) |-> flat_aliases(columns[i])]

required_columns == {"date", "state", "city", "summary"}

\* list(required_columns): one order for the whole run
RequiredList == <<"date", "state", "city", "summary">>

\* df[labels]: for each label in turn, every column that carries it
RECURSIVE SelectColumns(_, _)
SelectColumns(columns, labels) ==
    IF labels = <<>> THEN <<>>
    ELSE LET hits == SelectIdx(Len(columns),
                               {i \in 1..Len(columns) : columns[i] = labels[1]})
         IN  [i \in 1..Len(hits) |-> columns[hits[i]]] \o SelectColumns(columns, Tail(labels))

\* required_columns.issubset(df.columns)
HasSomeRequired(columns) == required_columns \cap Range(columns) /= {}
HasRequired(columns) == required_columns \subseteq Range(columns)

\* file_adapter(df, coltuple): the pair (skip, df)
file_adapter(df) ==
    LET renamed == Rename(df.columns)
    IN  IF HasRequired(renamed)
        THEN [skip |-> FALSE, df |-> Table(SelectColumns(renamed, RequiredList), df.rows)]
        ELSE [skip |-> TRUE, df |-> Table(renamed, df.rows)]

\* the headers a spreadsheet can carry, in sheet order
HeaderOrder == <<"Date", "State", "STATE", "City", "Summary", "Remarks">>

HeaderLists == {[i \in 1..Cardinality(keep) |->
                    HeaderOrder[SelectIdx(Len(HeaderOrder), keep)[i]]] :
                keep \in SUBSET (1..Len(HeaderOrder))}


\* a file of the directory: unreadable, or a sheet with headers and rows
Unreadable == [readable |-> FALSE, columns |-> <<>>, nrows |-> 0]

Files == {Unreadable} \cup
         [readable : {TRUE}, columns : HeaderLists, nrows : {SheetRows}]

\* pd.read_excel(file) of the i-th file: its rows are tagged with the file
read_excel(i, file) == Table(file.columns, [r \in 1..file.nrows |-> <<i, r>>])

HasDuplicates(columns) == \E i, j \in 1..Len(columns) : i /= j /\ columns[i] = columns[j]

\* pd.concat(objs, axis=0) raises: on an empty list, and when the frames'
\* column indexes differ while one of them repeats a label (pandas cannot
\* reindex a non-unique index)
ConcatRaises(objs) ==
    \/ objs = <<>>
    \/ /\ \E i \in 1..Len(objs) : objs[i].columns /= objs[1].columns
       /\ \E i \in 1..Len(objs) : HasDuplicates(objs[i].columns)

RECURSIVE ConcatRows(_)
ConcatRows(objs) ==
    IF objs = <<>> THEN <<>> ELSE objs[1].rows \o ConcatRows(Tail(objs))

RECURSIVE UnionColumns(_)
UnionColumns(objs) ==
    IF objs = <<>> THEN <<>>
    ELSE LET rest == UnionColumns(Tail(objs))
             more == SelectIdx(Len(rest), {i \in 1..Len(rest) :
                                             rest[i] \notin Range(objs[1].columns)})
         IN  objs[1].columns \o [i \in 1..Len(more) |-> rest[more[i]]]

\* pd.concat(dfs, axis=0).reset_index(drop=True) inside try/except
Concat(objs) ==
    IF ConcatRaises(objs) THEN NoTable
    ELSE Table(UnionColumns(objs), ConcatRows(objs))

ReadInit ==
    /\ \E k \in 0..MaxFiles : files \in [1..k -> Files]
    /\ file_idx = 0 /\ dfs = <<>> /\ read_pc = "glob" /\ read_result = NoTable

\* files = list(pth.glob("*.xlsx")); if not files: return None
ReadGlob ==
    /\ read_pc = "glob"
    /\ read_pc' = IF files = <<>> THEN "done" ELSE "loop"
    /\ UNCHANGED <<files, file_idx, dfs, read_result>>
    /\ UNCHANGED <<ctorVars, tablesVars, crawlVars, extractVars>>

\* `if skip: continue`
KeepsAll(skip) == TRUE
Keeps(skip) == ~skip

\* one iteration of `for file in files`
ReadStep ==
    /\ read_pc = "loop"
    /\ file_idx < Len(files)
    /\ file_idx' = file_idx + 1
    /\ LET file == files[file_idx + 1]
       IN  IF ~file.readable
           THEN dfs' = dfs
           ELSE LET adapted == file_adapter(read_excel(file_idx + 1, file))
                IN  dfs' = IF Keeps(adapted.skip) THEN Append(dfs, adapted.df) ELSE dfs
    /\ UNCHANGED <<files, read_pc, read_result>>
    /\ UNCHANGED <<ctorVars, tablesVars, crawlVars, extractVars>>

\* after the loop: `if not dfs: return None`, else the concatenation or None
ReadConcat ==
    /\ read_pc = "loop"
    /\ file_idx = Len(files)
    /\ read_result' = IF dfs = <<>> THEN NoTable ELSE Concat(dfs)
    /\ read_pc' = "done"
    /\ UNCHANGED <<files, file_idx, dfs>>
    /\ UNCHANGED <<ctorVars, tablesVars, crawlVars, extractVars>>

ReadNext == ReadGlob \/ ReadStep \/ ReadConcat

\* ==========================================================================
\* FAADroneSightings.sample_extract
\* ==========================================================================

\* the JSON values the service can put in its object: a list of extracted
\* items, or a single item
Items == {"item a", "item b"}

Item(x) == [kind |-> "item", item |-> x, list |-> <<>>]

List(xs) == [kind |-> "list", item |-> None, list |-> xs]

Values == {Item(x) : x \in Items} \cup {List(xs) : xs \in SeqsUpTo(Items, MaxItems)}

\* choices[0]: text that json.loads rejects, or the text of an object whose
\* values are `values`, in key order
Malformed == [json |-> FALSE, values |-> <<>>]

Responses == {Malformed} \cup [json : {TRUE}, values : SeqsUpTo(Values, MaxValues)]

ExtractInit ==
    /\ \E n \in 0..MaxSummaries : summaries = [i \in 1..n |-> <<"summary", i>>]
    /\ response \in Responses
    /\ extract_pc = "call"
    /\ extract_out = [kind |-> "pending", shown |-> <<>>]

\* zip(summaries, resp)
Zip(a, b) == [i \in 1..Min(Len(a), Len(b)) |-> <<a[i], b[i]>>]

\* `if len(resp) != len(summaries)`
SizesDiffer(resp, sums) == Len(resp) /= Len(sums)

\* lines 447-465 on the response: "raise" is an exception that leaves the
\* method, "mismatch" the error message and `return None`, "reviewed" the
\* review loop over the pairs it showed
sample_extract(sums, resp_text) ==
    IF ~resp_text.json THEN [kind |-> "raise", shown |-> <<>>]
    ELSE LET values == resp_text.values
         IN  IF values = <<>> THEN [kind |-> "raise", shown |-> <<>>]   \* resp[0]: IndexError
             ELSE LET resp == IF values[1].kind = "list"
                              THEN [i \in 1..Len(values[1].list) |-> Item(values[1].list[i])]
                              ELSE values
                  IN  IF SizesDiffer(resp, sums)
                      THEN [kind |-> "mismatch", shown |-> <<>>]
                      ELSE [kind |-> "reviewed", shown |-> Zip(sums, resp)]

SampleExtract ==
    /\ extract_pc = "call"
    /\ extract_out' = sample_extract(summaries, response)
    /\ extract_pc' = "done"
    /\ UNCHANGED <<summaries, response>>
    /\ UNCHANGED <<ctorVars, tablesVars, crawlVars, readVars>>

ExtractNext == SampleExtract

\* ==========================================================================
\* Specifications
\* ==========================================================================
ReadIdle ==
    /\ files = <<>> /\ file_idx = 0 /\ dfs = <<>> /\ read_pc = "idle" /\ read_result = NoTable

ExtractIdle ==
    /\ summaries = <<>> /\ response = Malformed /\ extract_pc = "idle"
    /\ extract_out = [kind |-> "pending", shown |-> <<>>]

CtorInit == CtorIdle /\ TablesIdle /\ CrawlIdle /\ ReadIdle /\ ExtractIdle
CtorNext == NewWaterUFONet \/ NewFAADroneSightings
SpecCtor == CtorInit /\ [][CtorNext]_vars

SnapInit == CtorIdle /\ TablesInit /\ CrawlIdle /\ ReadIdle /\ ExtractIdle
SpecTables == SnapInit /\ [][TablesNext]_vars

CaseReportsInit == CtorIdle /\ TablesIdle /\ ReportsInit /\ ReadIdle /\ ExtractIdle
SpecReports == CaseReportsInit /\ [][ReportsNext]_vars

FilesInit == CtorIdle /\ TablesIdle /\ DownloadInit /\ ReadIdle /\ ExtractIdle
SpecDownload == FilesInit /\ [][DownloadNext]_vars
\* the interpreter runs a method to its end: a step that can be taken is taken
SpecDownloadFair == SpecDownload /\ WF_vars(DownloadNext)

DirInit == CtorIdle /\ TablesIdle /\ CrawlIdle /\ ReadInit /\ ExtractIdle
SpecRead == DirInit /\ [][ReadNext]_vars

BatchInit == CtorIdle /\ TablesIdle /\ CrawlIdle /\ ReadIdle /\ ExtractInit
SpecExtract == BatchInit /\ [][ExtractNext]_vars

\* ==========================================================================
\* Properties
\* ==========================================================================

\* C9: a constructor call with a buffer time below 10 raises and creates no
\* object, a call with 10 or more creates an object that stores exactly that
\* value; so the objects that exist are, in order, the calls with a buffer
\* time of at least 10, and every one of them has buffer_time >= 10.
C9_BufferTimeValidated ==
    LET okCalls == SelectIdx(Len(ctor_calls),
                             {i \in 1..Len(ctor_calls) : ctor_calls[i].buffer_time >= 10})
    IN  /\ \A i \in 1..Len(ctor_calls) :
              (ctor_calls[i].buffer_time < 10) <=> (ctor_calls[i].outcome = "ValueError")
        /\ Len(scrapers) = Len(okCalls)
        /\ \A k \in 1..Len(okCalls) :
              /\ scrapers[k].cls = ctor_calls[okCalls[k]].cls
              /\ scrapers[k].buffer_time = ctor_calls[okCalls[k]].buffer_time
        /\ \A k \in 1..Len(scrapers) : scrapers[k].buffer_time >= 10

\* a rejected WaterUFONet(buffer_time=9) followed by an accepted FAADroneSightings(10)
C9_Witness ==
    /\ Len(ctor_calls) = 2
    /\ ctor_calls[1] = [cls |-> "WaterUFONet", buffer_time |-> 9, outcome |-> "ValueError"]
    /\ ctor_calls[2] = [cls |-> "FAADroneSightings", buffer_time |-> 10, outcome |-> "ok"]
    /\ Len(scrapers) = 1 /\ scrapers[1].buffer_time = 10

FailCount(log, n) == Cardinality({i \in 1..n : log[i] = "fail"})

\* C2: the counter is the number of failed fetches; with max_failures >= 1 it
\* never exceeds max_failures; the failure that makes it equal max_failures
\* is the last fetch of the run; and the returned list is the {link, report}
\* entry of every successful fetch, in link order, once each.
C2_FailureThreshold ==
    run = "reports" =>
        LET okIdx == SelectIdx(Len(fetch_log),
                               {i \in 1..Len(fetch_log) : fetch_log[i] /= "fail"})
        IN  /\ failures = FailCount(fetch_log, Len(fetch_log))
            /\ max_failures >= 1 => failures <= max_failures
            /\ \A i \in 1..Len(fetch_log) :
                  (fetch_log[i] = "fail" /\ FailCount(fetch_log, i) = max_failures)
                      => (i = Len(fetch_log) /\ crawl_pc = "done")
            /\ crawl_pc = "done" =>
                  /\ Len(results) = Len(okIdx)
                  /\ \A k \in 1..Len(okIdx) :
                        results[k] = [link |-> table_links[okIdx[k]],
                                      report |-> fetch_log[okIdx[k]]]

\* a run over three links that aborts at the second failure with a report collected
C2_Witness ==
    /\ run = "reports" /\ crawl_pc = "done"
    /\ max_failures = 2 /\ failures = 2
    /\ Len(table_links) = 3 /\ Len(fetch_log) = 3
    /\ fetch_log[2] /= "fail" /\ Len(results) = 1

\* a file's table lacks a required column after the aliases are renamed
LacksRequired(file) ==
    \E c \in {"date", "state", "city", "summary"} :
        \A i \in 1..Len(file.columns) : flat_aliases(file.columns[i]) /= c

AcceptedFile(file) == file.readable /\ ~LacksRequired(file)

RECURSIVE RowsOfAccepted(_)
RowsOfAccepted(n) ==
    IF n = 0 THEN <<>>
    ELSE RowsOfAccepted(n - 1) \o
         (IF AcceptedFile(files[n]) THEN [r \in 1..files[n].nrows |-> <<n, r>>] ELSE <<>>)

\* C1: file_adapter reports skip = True for every table that lacks one of
\* date, state, city, summary after renaming; no row of such a file is in
\* the list of kept tables or in the merged table; the merged table holds
\* the rows of the accepted files in the order the files were iterated.
C1_RejectedFilesExcluded ==
    /\ \A i \in 1..Len(files) :
          (files[i].readable /\ LacksRequired(files[i]))
              => file_adapter(read_excel(i, files[i])).skip
    /\ \A k \in 1..Len(dfs) : \A r \in 1..Len(dfs[k].rows) :
          AcceptedFile(files[dfs[k].rows[r][1]])
    /\ (read_pc = "done" /\ read_result.kind = "table")
          => read_result.rows = RowsOfAccepted(Len(files))

\* a rejected file with a row, then an accepted file with a row, merged
C1_Witness ==
    /\ read_pc = "done" /\ read_result.kind = "table"
    /\ Len(files) = 2
    /\ files[1].readable /\ LacksRequired(files[1]) /\ files[1].nrows >= 1
    /\ AcceptedFile(files[2]) /\ files[2].nrows >= 1
    /\ read_result.rows = [r \in 1..files[2].nrows |-> <<2, r>>]

C7_OneColumnPerName ==
    (read_pc = "done" /\ read_result.kind = "table") =>
        /\ Len(read_result.columns) = 4
        /\ \A c \in {"date", "state", "city", "summary"} :
              Cardinality({i \in 1..Len(read_result.columns) :
                              read_result.columns[i] = c}) = 1

\* the number of values the check compares with the number of summaries
DecodedCount(r) ==
    IF r.values = <<>> THEN 0
    ELSE IF r.values[1].kind = "list" THEN Len(r.values[1].list)
    ELSE Len(r.values)

\* C3 (as claimed): a response that decodes to a number of values different
\* from the number of summaries, zero values included, ends in the mismatch
\* branch: nothing raised, no summary shown with an extracted item.
C3_MismatchDiscarded ==
    (extract_pc = "done" /\ response.json /\ DecodedCount(response) /= Len(summaries))
        => (extract_out.kind = "mismatch" /\ extract_out.shown = <<>>)

RECURSIVE FramesOf(_)
FramesOf(log) ==
    IF log = <<>> THEN <<>>
    ELSE LET front == FramesOf(SubSeq(log, 1, Len(log) - 1))
             last  == log[Len(log)]
         IN  IF last.df.kind = "frame" THEN Append(front, last.df) ELSE front

\* C5 (as claimed): whatever goes wrong with one snapshot, every snapshot
\* among the first n is processed and the returned list holds the tables of
\* the snapshots that succeeded, in order.
C5_BatchContinues ==
    tables_pc = "done" =>
        /\ Len(snap_log) = Min(n_snapshots, MaxSnapshots)
        /\ frames = FramesOf(snap_log)

\* C6 (as claimed): a page with k >= 1 data rows and k report anchors gives
\* k rows, row i carrying the archive base URL followed by the i-th href;
\* a page whose number of report anchors differs from its number of data
\* rows gives no table. (Pages whose report anchors all have an href.)
C6_LinksAttachedInOrder ==
    \A n \in 1..Len(snap_log) :
        LET page   == snap_log[n].page
            df     == snap_log[n].df
            k      == IF page.trs = 0 THEN 0 ELSE page.trs - 1
            report == ReportAnchors(page)
        IN  (/\ page.status = "ok" /\ page.tables >= 5
             /\ \A i \in 1..Len(report) : report[i].href /= None)
            => /\ (Len(report) = k /\ k >= 1) =>
                     /\ df.kind = "frame"
                     /\ Len(df.rows) = k /\ Len(df.link) = k
                     /\ \A i \in 1..k : df.link[i] = "https://web.archive.org/" \o report[i].href
               /\ Len(report) /= k => df.kind /= "frame"

\* C4 (as claimed, its termination part): the loop over the growing link
\* list ends, by returning the links or by a failed request.
C4_LoopTerminates == <>(crawl_pc \notin {"index", "links"})

\* C10 (as claimed): between two consecutive requests to one host there is a
\* pause of at least the buffer time.
C10_PauseBetweenRequests ==
    \A i, j \in 1..Len(http_log) :
        (/\ i < j
         /\ http_log[i].op = "GET" /\ http_log[j].op = "GET"
         /\ http_log[i].host = http_log[j].host
         /\ \A m \in (i + 1)..(j - 1) :
               ~(http_log[m].op = "GET" /\ http_log[m].host = http_log[i].host))
        => \E m \in (i + 1)..(j - 1) :
               http_log[m].op = "sleep" /\ http_log[m].secs >= buffer_time
====
